---- MODULE Spec2Model ----
(***************************************************************************)
(* Model of the multimodal hasher (vllm/multimodal/hasher.py) and of the   *)
(* media cache (vllm/multimodal/media_cache.py).                           *)
(*                                                                         *)
(* Strings are sequences of Unicode code points and byte strings are       *)
(* sequences of integers 0..255.  Python values are tagged records         *)
(* [t |-> kind, v |-> content].                                            *)
(***************************************************************************)
EXTENDS Integers, Sequences, FiniteSets, TLC

(***************************************************************************)
(* Bounds of the model.                                                    *)
(***************************************************************************)
\* total number of characters in the text leaves of one hashed input
MaxChars == 2
\* longest list in a hashed input
MaxListLen == 2
\* scalars range over -MaxInt..MaxInt
MaxInt == 2
\* payload sizes range over 1..MaxSize
MaxSize == 2
\* the capacity given to the constructor ranges over 1..MaxCapacity
MaxCapacity == 2

(***************************************************************************)
(* Python values.                                                          *)
(***************************************************************************)
None == [t |-> "none", v |-> <<>>]
Str(s) == [t |-> "str", v |-> s]
List(xs) == [t |-> "list", v |-> xs]
Dict(es) == [t |-> "dict", v |-> es]
IntV(n) == [t |-> "int", v |-> n]
FloatV(n) == [t |-> "float", v |-> n]

\* Python truthiness of an Optional[str]
Truthy(x) == x.t = "str" /\ Len(x.v) > 0

\* "." of the f-strings f"{key}.{i}" and f"{key}.{k}", and "0", the first digit
CH_dot == 46
CH_0 == 48

RECURSIVE Concat(_)
Concat(seqs) ==
    IF Len(seqs) = 0 THEN <<>> ELSE Head(seqs) \o Concat(Tail(seqs))

(***************************************************************************)
(* str.encode("utf-8")                                                     *)
(***************************************************************************)
Utf8Char(cp) ==
    IF cp < 128 THEN <<cp>>
    ELSE IF cp < 2048 THEN <<192 + (cp \div 64), 128 + (cp % 64)>>
    ELSE <<224 + (cp \div 4096), 128 + ((cp \div 64) % 64), 128 + (cp % 64)>>

Utf8(s) == Concat([i \in 1..Len(s) |-> Utf8Char(s[i])])

(***************************************************************************)
(* str(i) of a non-negative int, as used by the f-string f"{key}.{i}"      *)
(***************************************************************************)
RECURSIVE DecStr(_)
DecStr(n) ==
    IF n < 10 THEN <<CH_0 + n>> ELSE DecStr(n \div 10) \o <<CH_0 + (n % 10)>>

(***************************************************************************)
(* np.array(obj).tobytes() for a Python int (int64, little endian) and a   *)
(* Python float (IEEE-754 binary64, little endian) of integral value.      *)
(***************************************************************************)
RECURSIVE LEBytes(_, _)
LEBytes(n, count) ==
    IF count = 0 THEN <<>> ELSE <<n % 256>> \o LEBytes(n \div 256, count - 1)

Int64Bytes(n) == LEBytes(n, 8)

Abs(n) == IF n < 0 THEN 0 - n ELSE n

RECURSIVE Pow2(_)
Pow2(e) == IF e = 0 THEN 1 ELSE 2 * Pow2(e - 1)

RECURSIVE Log2(_)
Log2(m) == IF m < 2 THEN 0 ELSE 1 + Log2(m \div 2)

\* the value is float(n), |n| < 4096, so only the top 12 fraction bits are set
Float64Bytes(n) ==
    IF n = 0 THEN <<0, 0, 0, 0, 0, 0, 0, 0>>
    ELSE LET sign == IF n < 0 THEN 1 ELSE 0
             e == Log2(Abs(n))
             biased == e + 1023
             top12 == (Abs(n) - Pow2(e)) * Pow2(12 - e)
         IN  <<0, 0, 0, 0, 0,
               top12 % 256,
               (biased % 16) * 16 + (top12 \div 256),
               sign * 128 + (biased \div 16)>>

\* hasher.py serialize_item, the "simple cases"
serialize_item(obj) ==
    IF obj.t = "str" THEN Utf8(obj.v)
    ELSE IF obj.t = "bytes" THEN obj.v
    ELSE IF obj.t = "int" THEN Int64Bytes(obj.v)
    ELSE Float64Bytes(obj.v)

(***************************************************************************)
(* iter_item_to_bytes: the sequence of (key_bytes, value_bytes) pairs.     *)
(***************************************************************************)
RECURSIVE iter_item_to_bytes(_, _)
iter_item_to_bytes(key, obj) ==
    IF obj.t = "list"
    THEN Concat([i \in 1..Len(obj.v) |->
                    iter_item_to_bytes(key \o <<CH_dot>> \o DecStr(i - 1), obj.v[i])])
    ELSE IF obj.t = "dict"
    THEN Concat([i \in 1..Len(obj.v) |->
                    iter_item_to_bytes(key \o <<CH_dot>> \o obj.v[i][1], obj.v[i][2])])
    ELSE << <<Utf8(key), serialize_item(obj)>> >>

\* all pairs yielded while hash_kwargs iterates over kwargs.items()
KwargPairs(kwargs) ==
    Concat([i \in 1..Len(kwargs) |-> iter_item_to_bytes(kwargs[i][1], kwargs[i][2])])

\* variant: only the value bytes are fed, the labels are forgotten
HasherInput_NoLabels(kwargs) ==
    LET ps == KwargPairs(kwargs)
    IN  Concat([i \in 1..Len(ps) |-> ps[i][2]])

\* the bytes received by hasher in hash_kwargs: update(k_bytes), update(v_bytes)
HasherInput(kwargs) ==
    LET ps == KwargPairs(kwargs)
    IN  Concat([i \in 1..Len(ps) |-> ps[i][1] \o ps[i][2]])

(***************************************************************************)
(* hexdigest().  A digest is modelled as an ideal hash: a lowercase hex    *)
(* string that is an injective function of the hashed bytes (the hex of    *)
(* the bytes themselves, after a digit naming the algorithm).              *)
(***************************************************************************)
HexDigit(d) == IF d < 10 THEN CH_0 + d ELSE 97 + (d - 10)

HexStr(bs) == Concat([i \in 1..Len(bs) |-> <<HexDigit(bs[i] \div 16), HexDigit(bs[i] % 16)>>])

Blake3Hex(bs) == <<HexDigit(11)>> \o HexStr(bs)

Sha256Hex(bs) == <<HexDigit(5)>> \o HexStr(bs)

hash_kwargs(kwargs) == Str(Blake3Hex(HasherInput(kwargs)))

(***************************************************************************)
(* get_cache_keys_from_mm_data and _hash_with_url_optimization.  A mapping *)
(* is the sequence of its (key, value) items in insertion order.           *)
(***************************************************************************)
S_image == <<105, 109, 97, 103, 101>>
S_video == <<118, 105, 100, 101, 111>>
S_audio == <<97, 117, 100, 105, 111>>
S_uuids == <<95, 117, 117, 105, 100, 115>>
S_url == <<95, 117, 114, 108>>

Modalities == <<S_image, S_video, S_audio>>

HasKey(m, k) == \E i \in 1..Len(m) : m[i][1] = k

Lookup(m, k) == m[CHOOSE i \in 1..Len(m) : m[i][1] = k][2]

EndsWith(s, suffix) ==
    /\ Len(s) >= Len(suffix)
    /\ SubSeq(s, Len(s) - Len(suffix) + 1, Len(s)) = suffix

\* variant: a list of identifiers is appended as one key instead of spliced in
UuidKeysOf_NoSplice(mm_data, modality) ==
    LET uuid_key == modality \o S_uuids
    IN  IF HasKey(mm_data, uuid_key) THEN <<Lookup(mm_data, uuid_key)>> ELSE <<>>

\* the loop body for one modality: what it adds to cache_keys
UuidKeysOf(mm_data, modality) ==
    LET uuid_key == modality \o S_uuids
    IN  IF HasKey(mm_data, uuid_key)
        THEN LET uuids == Lookup(mm_data, uuid_key)
             IN  IF uuids.t = "list" THEN uuids.v ELSE <<uuids>>
        ELSE <<>>

hash_with_url_optimization(kwargs) ==
    LET optimized_kwargs ==
            [i \in 1..Len(kwargs) |->
                IF EndsWith(kwargs[i][1], S_url) /\ kwargs[i][2].t = "str"
                THEN <<kwargs[i][1], kwargs[i][2]>>
                ELSE <<kwargs[i][1], kwargs[i][2]>>]
    IN  hash_kwargs(optimized_kwargs)

\* the result: the keys returned, whether hash_kwargs was called, the error raised
get_cache_keys_from_mm_data(mm_data) ==
    LET cache_keys == Concat([i \in 1..Len(Modalities) |-> UuidKeysOf(mm_data, Modalities[i])])
    IN  IF cache_keys = <<>>
        THEN [keys |-> <<hash_with_url_optimization(mm_data)>>, hashed |-> TRUE,
              raised |-> "none"]
        ELSE [keys |-> cache_keys, hashed |-> FALSE, raised |-> "none"]

(***************************************************************************)
(* The inputs the hasher is applied to.                                    *)
(***************************************************************************)
SeqsUpTo(S, n) == UNION {[1..k -> S] : k \in 0..n}

\* the characters of text leaves: "a", "b", ".", "e acute"
Alphabet == {97, 98, 46, 233}
Texts == SeqsUpTo(Alphabet, MaxChars)

\* the lists of at most n texts with at most budget characters in all
RECURSIVE BoundedLists(_, _)
BoundedLists(n, budget) ==
    IF n = 0 THEN {<<>>}
    ELSE {<<>>} \cup UNION {{<<t>> \o rest : rest \in BoundedLists(n - 1, budget - Len(t))} :
                              t \in SeqsUpTo(Alphabet, budget)}
\* dict keys: "0", "a", "b.c"
DictKeys == {<<48>>, <<97>>, <<98, 46, 99>>}
\* top-level keyword names: "a", "a.0"
TopKeys == {<<97>>, <<97, 46, 48>>}

Leaves == {Str(s) : s \in Texts}
FlatLists ==
    {List([i \in 1..Len(l) |-> Str(l[i])]) : l \in BoundedLists(MaxListLen, MaxChars)}
Dicts ==
    {Dict(<<>>)} \cup {Dict(<< <<k, x>> >>) : k \in DictKeys, x \in Leaves}
Nested ==
    {List(<<x>>) : x \in FlatLists \cup Dicts}
        \cup {Dict(<< <<k, x>> >>) : k \in DictKeys, x \in FlatLists}
Values == Leaves \cup FlatLists \cup Dicts \cup Nested

\* keyword sets of nested lists and dicts with text leaves
KwInputs ==
    {<<>>} \cup {<< <<k, x>> >> : k \in TopKeys, x \in Values}
        \cup {<< <<(<<97>>), x>>, <<(<<98>>), y>> >> : x \in Leaves, y \in {Str(<<>>), Str(<<97>>)}}

\* keyword sets with one scalar
Scalars == {IntV(n) : n \in (0 - MaxInt)..MaxInt} \cup {FloatV(n) : n \in (0 - MaxInt)..MaxInt}
ScalarInputs == {<< <<(<<97>>), x>> >> : x \in Scalars}

\* request fields: "u1", "u2", "u3" are identifiers, "x", "y" are URLs
U1 == <<117, 49>>
U2 == <<117, 50>>
U3 == <<117, 51>>
UuidLists == {List([i \in 1..Len(l) |-> Str(l[i])]) : l \in SeqsUpTo({U1, U2}, MaxListLen)}
Absent == [t |-> "absent", v |-> <<>>]
FieldChoices ==
    [image : UuidLists \cup {Str(U1), Absent},
     video : {List(<<>>), List(<<Str(U3)>>), Str(U3), Absent},
     audio : {List(<<>>), List(<<Str(U2)>>), Absent},
     url : {Str(<<120>>), Str(<<121>>), Absent}]
FieldsOf(c, backwards) ==
    LET all == IF backwards
               THEN << <<S_image \o S_url, c.url>>, <<S_audio \o S_uuids, c.audio>>,
                       <<S_video \o S_uuids, c.video>>, <<S_image \o S_uuids, c.image>> >>
               ELSE << <<S_image \o S_uuids, c.image>>, <<S_video \o S_uuids, c.video>>,
                       <<S_audio \o S_uuids, c.audio>>, <<S_image \o S_url, c.url>> >>
    IN  SelectSeq(all, LAMBDA f : f[2] # Absent)
MmInputs == {FieldsOf(c, b) : c \in FieldChoices, b \in BOOLEAN}

HashInputs == KwInputs \cup ScalarInputs \cup MmInputs

(***************************************************************************)
(* LRUCache (vllm.utils), the store behind MediaCache: a key -> payload    *)
(* index, the recency order (least recently used first), the total size    *)
(* and the capacity.  A payload is a blob of p bytes.                      *)
(***************************************************************************)
Payloads == 1..MaxSize

SizeOf(p) == p

Found(p) == [t |-> "data", v |-> p]

Without(seq, k) == SelectSeq(seq, LAMBDA x : x # k)

Restrict(f, S) == [k \in S |-> f[k]]

LRUNew(cap) == [capacity |-> cap, data |-> <<>>, order |-> <<>>, total |-> 0]

\* variant: a hit does not refresh the entry's recency
LRUGet_NoPromote(c, k) ==
    IF k \in DOMAIN c.data
    THEN [cache |-> c, value |-> Found(c.data[k])]
    ELSE [cache |-> c, value |-> None]

\* get: on a hit the entry becomes the most recently used
LRUGet(c, k) ==
    IF k \in DOMAIN c.data
    THEN [cache |-> [c EXCEPT !.order = Without(@, k) \o <<k>>], value |-> Found(c.data[k])]
    ELSE [cache |-> c, value |-> None]

\* put, first half: the entry is inserted or replaced at the most recently used position
LRUStore(c, k, p) ==
    [c EXCEPT !.data = [x \in (DOMAIN @) \cup {k} |-> IF x = k THEN p ELSE @[x]],
              !.order = Without(@, k) \o <<k>>]

\* put, second half: the size accounting, from the total read before the store
LRUAccount(c, readTotal, oldSize, p) ==
    [c EXCEPT !.total = readTotal - oldSize + SizeOf(p)]

OldSize(c, k) == IF k \in DOMAIN c.data THEN SizeOf(c.data[k]) ELSE 0

LRUInsert(c, k, p) == LRUAccount(LRUStore(c, k, p), c.total, OldSize(c, k), p)

\* eviction of the least recently used entry
LRUEvictOne(c) ==
    LET k == Head(c.order)
    IN  [c EXCEPT !.data = Restrict(@, (DOMAIN @) \ {k}),
                  !.order = Tail(@),
                  !.total = @ - SizeOf(c.data[k])]

MustEvict(c) == c.total > c.capacity /\ c.order # <<>>

\* variant: the eviction loop spares the last remaining entry
RECURSIVE LRUEvict_KeepLast(_)
LRUEvict_KeepLast(c) ==
    IF c.total > c.capacity /\ Len(c.order) > 1 THEN LRUEvict_KeepLast(LRUEvictOne(c)) ELSE c

RECURSIVE LRUEvict(_)
LRUEvict(c) == IF MustEvict(c) THEN LRUEvict(LRUEvictOne(c)) ELSE c

LRUSetItem(c, k, p) == LRUEvict(LRUInsert(c, k, p))

LRUClear(c) == [c EXCEPT !.data = <<>>, !.order = <<>>, !.total = 0]

(***************************************************************************)
(* MediaCache (media_cache.py).  uuid and url are Optional[str].           *)
(***************************************************************************)
get_url_hash(url) == Sha256Hex(Utf8(url))

\* variant: get prefers the url over the uuid
GetKey_UrlFirst(uuid, url) ==
    IF Truthy(url) THEN [ok |-> TRUE, key |-> get_url_hash(url.v)]
    ELSE IF Truthy(uuid) THEN [ok |-> TRUE, key |-> uuid.v]
    ELSE [ok |-> FALSE, key |-> <<>>]

\* the key chosen by get: ok is FALSE on the path that returns None at once
GetKey(uuid, url) ==
    IF Truthy(uuid) THEN [ok |-> TRUE, key |-> uuid.v]
    ELSE IF Truthy(url) THEN [ok |-> TRUE, key |-> get_url_hash(url.v)]
    ELSE [ok |-> FALSE, key |-> <<>>]

\* variant: put without uuid and url stores under the hash of the empty url
PutKey_NoRaise(uuid, url) ==
    IF Truthy(uuid) THEN [ok |-> TRUE, key |-> uuid.v]
    ELSE [ok |-> TRUE, key |-> get_url_hash(url.v)]

\* the key chosen by put: ok is FALSE on the path that raises ValueError
PutKey(uuid, url) ==
    IF Truthy(uuid) THEN [ok |-> TRUE, key |-> uuid.v]
    ELSE IF Truthy(url) THEN [ok |-> TRUE, key |-> get_url_hash(url.v)]
    ELSE [ok |-> FALSE, key |-> <<>>]

MediaCacheGet(c, uuid, url) ==
    LET ck == GetKey(uuid, url)
    IN  IF ck.ok
        THEN LET r == LRUGet(c, ck.key)
             IN  [cache |-> r.cache, value |-> r.value, raised |-> "none"]
        ELSE [cache |-> c, value |-> None, raised |-> "none"]

MediaCachePut(c, data, uuid, url) ==
    LET ck == PutKey(uuid, url)
    IN  IF ck.ok
        THEN [cache |-> LRUSetItem(c, ck.key, data), value |-> Str(ck.key), raised |-> "none"]
        ELSE [cache |-> c, value |-> None, raised |-> "ValueError"]

\* variant: clear leaves the store as it is
MediaCacheClear_Noop(c) == [cache |-> c, value |-> None, raised |-> "none"]

MediaCacheClear(c) == [cache |-> LRUClear(c), value |-> None, raised |-> "none"]

\* the arguments of the calls: None, "", "u1", the hash of "x" / None, "x", "y"
UuidArgs == {None, Str(<<>>), Str(U1), Str(get_url_hash(<<120>>))}
UrlArgs == {None, Str(<<120>>), Str(<<121>>)}

(***************************************************************************)
(* State.                                                                  *)
(*   mm, hres, hpc   the hasher: its input, its result, its position       *)
(*   cache           MediaCache._cache of the global instance              *)
(*   last            the last call on the cache: arguments, outcome, the   *)
(*                   keys it removed, the keys a get hit moved its entry   *)
(*                   past, and whether a put evicted one of those while    *)
(*                   keeping the entry the get before it had refreshed     *)
(*   recency         the stored keys by last touch (get hit or put),       *)
(*                   least recent first, kept from the calls' arguments    *)
(*   live            for each stored key, the put that wrote its entry     *)
(*   lock, pc, loc   the threads that share the cache                      *)
(***************************************************************************)
VARIABLES mm, hres, hpc, cache, last, recency, live, lock, pc, loc

vars == <<mm, hres, hpc, cache, last, recency, live, lock, pc, loc>>
hashVars == <<mm, hres, hpc>>
cacheVars == <<cache, last, recency, live>>
threadVars == <<lock, pc, loc>>

Threads == {"t1", "t2"}

NoResult == [op |-> "none", fed |-> <<>>, keys |-> <<>>, hashed |-> FALSE, raised |-> "none"]
NoCall ==
    [op |-> "none", uuid |-> None, url |-> None, data |-> 0, value |-> None,
     raised |-> "none", evicted |-> {}, passed |-> {}, keptRefreshed |-> FALSE]
NoLocals ==
    [op |-> "none", key |-> <<>>, data |-> 0, readTotal |-> 0, oldSize |-> 0, value |-> None,
     snap |-> LRUNew(0)]

HashIdle == mm = <<>> /\ hres = NoResult /\ hpc = "off"
CacheIdle == cache = LRUNew(MaxCapacity) /\ last = NoCall /\ recency = <<>> /\ live = <<>>
ThreadsIdle == lock = "free" /\ pc = [t \in Threads |-> "idle"] /\ loc = [t \in Threads |-> NoLocals]

(***************************************************************************)
(* The key an entry is known by: the uuid when it is non-empty, otherwise  *)
(* the hash of the url.  recency and live are kept by this rule.           *)
(***************************************************************************)
Pos(seq, x) == CHOOSE i \in 1..Len(seq) : seq[i] = x

HasKeyArg(uuid, url) == Truthy(uuid) \/ Truthy(url)

KeyRule(uuid, url) == IF Truthy(uuid) THEN uuid.v ELSE get_url_hash(url.v)

(***************************************************************************)
(* The calls on the cache, one client at a time.                           *)
(***************************************************************************)
Init ==
    /\ cache \in {LRUNew(cap) : cap \in 1..MaxCapacity}
    /\ last = NoCall
    /\ recency = <<>>
    /\ live = <<>>
    /\ HashIdle
    /\ ThreadsIdle

Get(uuid, url) ==
    LET r == MediaCacheGet(cache, uuid, url)
        hit == r.value.t = "data"
        k == KeyRule(uuid, url)
    IN  /\ cache' = r.cache
        /\ recency' = IF hit THEN Without(recency, k) \o <<k>> ELSE recency
        /\ live' = live
        /\ last' = [op |-> "get", uuid |-> uuid, url |-> url, data |-> 0, value |-> r.value,
                    raised |-> r.raised, evicted |-> {},
                    passed |-> IF hit
                               THEN {recency[j] : j \in {j \in DOMAIN recency :
                                         \E i \in 1..(j - 1) : recency[i] = k}}
                               ELSE {},
                    keptRefreshed |-> FALSE]
        /\ UNCHANGED <<hashVars, threadVars>>

Put(data, uuid, url) ==
    LET r == MediaCachePut(cache, data, uuid, url)
        k == KeyRule(uuid, url)
        after == DOMAIN r.cache.data
        evicted == ((DOMAIN cache.data) \cup {k}) \ after
    IN  /\ cache' = r.cache
        /\ IF r.raised = "none"
           THEN /\ recency' = SelectSeq(Without(recency, k) \o <<k>>, LAMBDA x : x \in after)
                /\ live' = [x \in ((DOMAIN live) \cup {k}) \cap after |->
                               IF x = k THEN [uuid |-> uuid, url |-> url, data |-> data]
                               ELSE live[x]]
                /\ last' = [op |-> "put", uuid |-> uuid, url |-> url, data |-> data,
                            value |-> r.value, raised |-> r.raised, evicted |-> evicted,
                            passed |-> {},
                            keptRefreshed |->
                                /\ last.op = "get"
                                /\ last.passed \cap evicted # {}
                                /\ KeyRule(last.uuid, last.url) \in after \ {k}]
           ELSE /\ UNCHANGED <<recency, live>>
                /\ last' = [op |-> "put", uuid |-> uuid, url |-> url, data |-> data,
                            value |-> r.value, raised |-> r.raised, evicted |-> {},
                            passed |-> {}, keptRefreshed |-> FALSE]
        /\ UNCHANGED <<hashVars, threadVars>>

Clear ==
    LET r == MediaCacheClear(cache)
    IN  /\ cache' = r.cache
        /\ recency' = <<>>
        /\ live' = <<>>
        /\ last' = [op |-> "clear", uuid |-> None, url |-> None, data |-> 0, value |-> r.value,
                    raised |-> r.raised, evicted |-> DOMAIN cache.data, passed |-> {},
                    keptRefreshed |-> FALSE]
        /\ UNCHANGED <<hashVars, threadVars>>

DoGet == \E uuid \in UuidArgs, url \in UrlArgs : Get(uuid, url)
DoPut == \E data \in Payloads, uuid \in UuidArgs, url \in UrlArgs : Put(data, uuid, url)

Next == DoGet \/ DoPut \/ Clear

Spec == Init /\ [][Next]_vars

(***************************************************************************)
(* The calls on the shared cache made by several threads.  The key is      *)
(* chosen outside the lock; the index, the recency order and the total     *)
(* size are read and written inside it, one step at a time.                *)
(***************************************************************************)
\* variant: the lock is taken without waiting for it to be free
LockFree_NoWait(l) == TRUE

LockFree(l) == l = "free"

CInit ==
    /\ cache \in {LRUNew(cap) : cap \in 1..MaxCapacity}
    /\ last = NoCall
    /\ recency = <<>>
    /\ live = <<>>
    /\ HashIdle
    /\ ThreadsIdle

CallGet(t, uuid, url) ==
    /\ pc[t] = "idle"
    /\ LET ck == GetKey(uuid, url)
       IN  IF ck.ok
           THEN /\ pc' = [pc EXCEPT ![t] = "acquire"]
                /\ loc' = [loc EXCEPT ![t] = [NoLocals EXCEPT !.op = "get", !.key = ck.key]]
           ELSE /\ pc' = pc
                /\ loc' = [loc EXCEPT ![t] = [NoLocals EXCEPT !.op = "returned"]]
    /\ UNCHANGED <<lock, cacheVars, hashVars>>

CallPut(t, data, uuid, url) ==
    /\ pc[t] = "idle"
    /\ LET ck == PutKey(uuid, url)
       IN  IF ck.ok
           THEN /\ pc' = [pc EXCEPT ![t] = "acquire"]
                /\ loc' = [loc EXCEPT ![t] =
                              [NoLocals EXCEPT !.op = "put", !.key = ck.key, !.data = data]]
           ELSE /\ pc' = pc
                /\ loc' = [loc EXCEPT ![t] = [NoLocals EXCEPT !.op = "raised"]]
    /\ UNCHANGED <<lock, cacheVars, hashVars>>

Acquire(t) ==
    /\ pc[t] = "acquire"
    /\ LockFree(lock)
    /\ lock' = t
    /\ pc' = [pc EXCEPT ![t] = "locked"]
    /\ loc' = [loc EXCEPT ![t].snap = cache]
    /\ UNCHANGED <<cacheVars, hashVars>>

GetLocked(t) ==
    /\ pc[t] = "locked"
    /\ loc[t].op = "get"
    /\ LET r == LRUGet(cache, loc[t].key)
       IN  /\ cache' = r.cache
           /\ loc' = [loc EXCEPT ![t].value = r.value]
    /\ pc' = [pc EXCEPT ![t] = "release"]
    /\ UNCHANGED <<lock, last, recency, live, hashVars>>

PutStore(t) ==
    /\ pc[t] = "locked"
    /\ loc[t].op = "put"
    /\ loc' = [loc EXCEPT ![t].readTotal = cache.total, ![t].oldSize = OldSize(cache, loc[t].key)]
    /\ cache' = LRUStore(cache, loc[t].key, loc[t].data)
    /\ pc' = [pc EXCEPT ![t] = "account"]
    /\ UNCHANGED <<lock, last, recency, live, hashVars>>

PutAccount(t) ==
    /\ pc[t] = "account"
    /\ cache' = LRUAccount(cache, loc[t].readTotal, loc[t].oldSize, loc[t].data)
    /\ pc' = [pc EXCEPT ![t] = "evict"]
    /\ UNCHANGED <<lock, loc, last, recency, live, hashVars>>

PutEvict(t) ==
    /\ pc[t] = "evict"
    /\ IF MustEvict(cache)
       THEN cache' = LRUEvictOne(cache) /\ pc' = pc
       ELSE cache' = cache /\ pc' = [pc EXCEPT ![t] = "release"]
    /\ UNCHANGED <<lock, loc, last, recency, live, hashVars>>

Release(t) ==
    /\ pc[t] = "release"
    /\ lock' = "free"
    /\ pc' = [pc EXCEPT ![t] = "idle"]
    /\ loc' = [loc EXCEPT ![t] = NoLocals]
    /\ UNCHANGED <<cacheVars, hashVars>>

ThreadCallsGet == \E t \in Threads, uuid \in UuidArgs, url \in UrlArgs : CallGet(t, uuid, url)
ThreadCallsPut ==
    \E t \in Threads, data \in Payloads, uuid \in UuidArgs, url \in UrlArgs :
        CallPut(t, data, uuid, url)
ThreadStep ==
    \E t \in Threads :
        \/ Acquire(t)
        \/ GetLocked(t)
        \/ PutStore(t)
        \/ PutAccount(t)
        \/ PutEvict(t)
        \/ Release(t)

CNext == ThreadCallsGet \/ ThreadCallsPut \/ ThreadStep

ConcSpec == CInit /\ [][CNext]_vars

(***************************************************************************)
(* Properties of the cache.                                                *)
(***************************************************************************)
RECURSIVE SumOver(_, _)
SumOver(f, S) ==
    IF S = {} THEN 0
    ELSE LET k == CHOOSE x \in S : TRUE IN SizeOf(f[k]) + SumOver(f, S \ {k})

SumSizes(c) == SumOver(c.data, DOMAIN c.data)

C2_StrictLRU ==
    [][(last'.op = "put" /\ last'.raised = "none") =>
        LET k == KeyRule(last'.uuid, last'.url)
            touched == Without(recency, k) \o <<k>>
        IN  \A e \in last'.evicted, r \in DOMAIN cache'.data :
                Pos(touched, e) < Pos(touched, r)]_vars

\* a get hit moved its entry past another one, and the put after it evicted
\* that other entry and kept the refreshed one
C2_EvictedOlder ==
    /\ last.op = "put"
    /\ last.evicted # {}
    /\ last.keptRefreshed
    /\ \E r \in DOMAIN cache.data : r # KeyRule(last.uuid, last.url)

\* C8 as stated: no call on the cache ends in an error.
C8_NeverRaises == last.raised = "none"

\* C8 amended: get and clear never raise, get without uuid and url returns
\* None, and put raises ValueError exactly when it is given neither a uuid
\* nor a url.
C8_RaisesOnlyPutWithoutKey ==
    /\ last.op \in {"get", "clear"} => last.raised = "none"
    /\ (last.op = "get" /\ ~HasKeyArg(last.uuid, last.url)) => last.value = None
    /\ last.op = "put" =>
        /\ last.raised \in {"none", "ValueError"}
        /\ last.raised = "ValueError" <=> ~HasKeyArg(last.uuid, last.url)

C8_PutWithoutKeyRaised ==
    /\ last.op = "put"
    /\ last.raised = "ValueError"
    /\ ~HasKeyArg(last.uuid, last.url)
    /\ cache.order # <<>>

\* C9: after clear the total size is 0, get returns None for every key that
\* was stored before the clear, and a second clear changes nothing.
C9_ClearEmpties ==
    last.op = "clear" =>
        /\ cache.total = 0
        /\ DOMAIN cache.data = {}
        /\ \A uuid \in UuidArgs, url \in UrlArgs :
              (HasKeyArg(uuid, url) /\ KeyRule(uuid, url) \in last.evicted)
                  => MediaCacheGet(cache, uuid, url).value = None
        /\ MediaCacheClear(cache).cache = cache

C9_ClearedStoredKeys == last.op = "clear" /\ last.evicted # {}

\* C10, the parts that hold: a get with the arguments of the put that wrote a
\* stored entry returns that put's data, and put returns the key of the rule
\* (the uuid when non-empty, otherwise the hash of the url).
C10_RoundTrip ==
    last.op = "get" =>
        \A k \in DOMAIN live :
            (live[k].uuid = last.uuid /\ live[k].url = last.url)
                => (last.value.t = "data" /\ last.value.v = live[k].data)

C10_PutReturnsKey ==
    (last.op = "put" /\ last.raised = "none")
        => last.value = Str(KeyRule(last.uuid, last.url))

\* the entry a get without uuid finds, if it finds one
FoundByUrl == live[get_url_hash(last.url.v)]

GetByUrlHit ==
    /\ last.op = "get"
    /\ ~Truthy(last.uuid)
    /\ Truthy(last.url)
    /\ last.value.t = "data"
    /\ get_url_hash(last.url.v) \in DOMAIN live

HInit ==
    /\ mm \in HashInputs
    /\ hres = NoResult
    /\ hpc = "start"
    /\ CacheIdle
    /\ ThreadsIdle

HashKwargs ==
    /\ hpc = "start"
    /\ hres' = [op |-> "hash_kwargs", fed |-> HasherInput(mm), keys |-> <<hash_kwargs(mm)>>,
                hashed |-> TRUE, raised |-> "none"]
    /\ hpc' = "done"
    /\ UNCHANGED <<mm, cacheVars, threadVars>>

ResolveKeys ==
    /\ hpc = "start"
    /\ LET r == get_cache_keys_from_mm_data(mm)
       IN  hres' = [op |-> "resolve", fed |-> IF r.hashed THEN HasherInput(mm) ELSE <<>>,
                    keys |-> r.keys, hashed |-> r.hashed, raised |-> r.raised]
    /\ hpc' = "done"
    /\ UNCHANGED <<mm, cacheVars, threadVars>>

HNext == HashKwargs \/ ResolveKeys

HashSpec == HInit /\ [][HNext]_vars

(***************************************************************************)
(* Properties of the hasher.                                               *)
(***************************************************************************)
Splice(x) == IF x.t = "list" THEN x.v ELSE <<x>>

FieldOrNothing(m, name) == IF HasKey(m, name) THEN Splice(Lookup(m, name)) ELSE <<>>

\* the identifiers of the fields, modalities in the order image, video, audio
SuppliedUuids(m) ==
    FieldOrNothing(m, S_image \o S_uuids) \o FieldOrNothing(m, S_video \o S_uuids)
        \o FieldOrNothing(m, S_audio \o S_uuids)

AnyUuidField(m) == \E i \in 1..Len(m) : EndsWith(m[i][1], S_uuids)

\* the same fields with image_url removed or set to another URL
WithUrl(m, u) ==
    LET rest == SelectSeq(m, LAMBDA f : f[1] # S_image \o S_url)
    IN  IF u = Absent THEN rest ELSE rest \o << <<S_image \o S_url, u>> >>

UuidsDecide(m) ==
    /\ hres.keys = SuppliedUuids(m)
    /\ ~hres.hashed
    /\ hres.fed = <<>>
    /\ \A u \in {Absent, Str(<<120>>), Str(<<121>>)} :
          get_cache_keys_from_mm_data(WithUrl(m, u)).keys = hres.keys

\* C4 as stated: whenever a UUID field is present the keys are exactly the
\* supplied identifiers, nothing is hashed and no other field matters.
C4_UuidsAlwaysDecide ==
    (hres.op = "resolve" /\ AnyUuidField(mm)) => UuidsDecide(mm)

\* C4 amended: that holds when the UUID fields supply at least one identifier;
\* when every UUID field present is an empty list the key is the digest of
\* all the fields.
C4_UuidsDecideWhenSupplied ==
    (hres.op = "resolve" /\ AnyUuidField(mm)) =>
        IF SuppliedUuids(mm) # <<>>
        THEN UuidsDecide(mm)
        ELSE hres.hashed /\ hres.keys = <<hash_kwargs(mm)>>

C4_UuidsBeforeUrl ==
    /\ hres.op = "resolve"
    /\ Len(mm) = 4
    /\ mm[1][1] = S_image \o S_url
    /\ HasKey(mm, S_audio \o S_uuids)
    /\ HasKey(mm, S_video \o S_uuids)
    /\ hres.keys = <<Str(U1), Str(U2), Str(U3), Str(U2)>>

\* nothing a key could be derived from: no field, or only empty UUID lists
NoKeyDerivable(m) ==
    \A i \in 1..Len(m) : EndsWith(m[i][1], S_uuids) /\ m[i][2] = List(<<>>)

\* C5: resolution of fields with neither a UUID nor a hashable field ends in
\* InvalidInput and returns no key.
C5_NoKeyIsInvalidInput ==
    (hres.op = "resolve" /\ NoKeyDerivable(mm))
        => (hres.raised = "InvalidInput" /\ hres.keys = <<>>)

IsKw(m) == m \in KwInputs

\* C6 as stated: two different keyword sets of nested lists and dicts with
\* text leaves never feed the same bytes to the hasher.  Stated here only for
\* keyword sets that differ in some leaf's label or payload, which leaves out
\* the pairs that differ in empty containers or in list versus dict alone.
C6_EncoderInjective ==
    (hres.op = "hash_kwargs" /\ IsKw(mm)) =>
        \A other \in KwInputs :
            KwargPairs(other) # KwargPairs(mm)
                => (HasherInput(other) # hres.fed /\ hash_kwargs(other) # hres.keys[1])

\* one keyword holding a flat list of text leaves without "."
IsFlatNoDot(m) ==
    /\ Len(m) = 1
    /\ m[1][2].t = "list"
    /\ \A i \in 1..Len(m[1][2].v) :
          /\ m[1][2].v[i].t = "str"
          /\ \A j \in 1..Len(m[1][2].v[i].v) : m[1][2].v[i].v[j] # CH_dot

FlatNoDotInputs == {m \in KwInputs : IsFlatNoDot(m)}

KwAB == << <<(<<97>>), List(<<Str(<<97, 98>>)>>)>> >>
KwA_B == << <<(<<97>>), List(<<Str(<<97>>), Str(<<98>>)>>)>> >>

\* C6 amended: two different flat lists of text leaves without "." under the
\* same keyword feed different bytes and get different digests; so do
\* a=["ab"] and a=["a","b"].
C6_FlatListsInjective ==
    (hres.op = "hash_kwargs" /\ IsKw(mm) /\ IsFlatNoDot(mm)) =>
        \A other \in FlatNoDotInputs :
            (other # mm /\ other[1][1] = mm[1][1])
                => (HasherInput(other) # hres.fed /\ hash_kwargs(other) # hres.keys[1])

C6_HashedAB ==
    /\ hres.op = "hash_kwargs"
    /\ mm = KwAB
    /\ KwA_B \in FlatNoDotInputs
    /\ hres.fed = <<97, 46, 48, 97, 98>>

\* C7: an integer and the float of the same value are encoded differently
\* and get different digests.
C7_IntFloatDiffer ==
    (hres.op = "hash_kwargs" /\ Len(mm) = 1 /\ mm[1][2].t = "int") =>
        /\ serialize_item(mm[1][2]) # serialize_item(FloatV(mm[1][2].v))
        /\ hres.keys[1] # hash_kwargs(<< <<mm[1][1], FloatV(mm[1][2].v)>> >>)

(***************************************************************************)
(* Properties of the shared cache.                                         *)
(***************************************************************************)
InLock(t) == pc[t] \in {"locked", "account", "evict", "release"}

\* what the call of thread t does when run alone on the cache it locked
Alone(t) ==
    IF loc[t].op = "get"
    THEN LRUGet(loc[t].snap, loc[t].key).cache
    ELSE LRUSetItem(loc[t].snap, loc[t].key, loc[t].data)

\* C3: the calls of concurrent threads take effect one at a time: at most one
\* thread is inside the lock, a call that is about to release the lock has
\* changed the cache exactly as the same call run alone would have, and
\* whenever the lock is free the total size is the sum of the sizes of the
\* indexed entries and the recency order lists each indexed key once.
C3_OneAtATime ==
    /\ \A t, u \in Threads : (InLock(t) /\ InLock(u)) => t = u
    /\ \A t \in Threads : InLock(t) => lock = t
    /\ \A t \in Threads : pc[t] = "release" => cache = Alone(t)
    /\ LockFree(lock) =>
          /\ cache.total = SumSizes(cache)
          /\ {cache.order[i] : i \in 1..Len(cache.order)} = DOMAIN cache.data
          /\ Len(cache.order) = Cardinality(DOMAIN cache.data)

C3_WaitedForPutThatEvicted ==
    \E t, u \in Threads :
        /\ pc[t] = "release"
        /\ loc[t].op = "put"
        /\ DOMAIN loc[t].snap.data # {}
        /\ ~(DOMAIN loc[t].snap.data \subseteq DOMAIN cache.data)
        /\ pc[u] = "acquire"

====
